---- MODULE Spec2Model ----
(***************************************************************************)
(* Model of the SSH API handlers (api/ssh.go) and of the configuration     *)
(* validation (authority/config.go) of the certificates repository.        *)
(*                                                                         *)
(* Conventions.                                                            *)
(*  - A Go pointer, interface or slice that may be nil is a sequence of    *)
(*    length at most one: <<>> is nil, <<v>> is a non-nil value v.         *)
(*  - A Go error is a sequence of strings: <<>> is nil; errors.Wrap        *)
(*    prepends its message, Errorf("... %s", a) is <<format, a>>.          *)
(*  - []byte and JSON text are sequences of byte values (ASCII codes).     *)
(*  - TLS versions (float 1.2) are kept as tenths (12).                    *)
(***************************************************************************)
EXTENDS Integers, Sequences, FiniteSets, TLC

VARIABLES
    pc,                 \* position of the running handler / operation
    op,                 \* the operation that is running or has just finished
    steps,              \* steps of the running handler executed so far
    calls,              \* calls made on the Authority collaborator, in order
    written,            \* response statuses written to the ResponseWriter
    resp,               \* the response body handed to JSON(w, ...), or nil
    sign,               \* locals of caHandler.SSHSign
    conf,               \* the Config under validation and Validate's result
    DefaultTLSOptions,  \* the package variable authority.DefaultTLSOptions
    render,             \* the request of caHandler.SSHConfig, raw and validated
    codec               \* a Certificate / Public Key container being coded

vars == <<pc, op, steps, calls, written, resp, sign, render, conf, DefaultTLSOptions, codec>>

----------------------------------------------------------------------------
(* Bounds of the model *)

MaxBlobLen == 2
MaxPrincipals == 2
MaxKeys == 2

----------------------------------------------------------------------------
(* Generic helpers *)

RECURSIVE SeqsUpTo(_, _)
SeqsUpTo(S, n) ==
    IF n = 0 THEN {<<>>}
    ELSE LET shorter == SeqsUpTo(S, n - 1)
         IN  shorter \cup {Append(s, x) : s \in {t \in shorter : Len(t) = n - 1}, x \in S}

Opt(S) == {<<>>} \cup {<<v>> : v \in S}

Wrap(err, msg) == <<msg>> \o err

----------------------------------------------------------------------------
(* encoding/base64 StdEncoding, as used by the containers *)

PadChar == 61

B64Char(i) ==
    IF i < 26 THEN 65 + i
    ELSE IF i < 52 THEN 97 + (i - 26)
    ELSE IF i < 62 THEN 48 + (i - 52)
    ELSE IF i = 62 THEN 43 ELSE 47

B64Index(ch) ==
    IF ch >= 65 /\ ch <= 90 THEN ch - 65
    ELSE IF ch >= 97 /\ ch <= 122 THEN ch - 97 + 26
    ELSE IF ch >= 48 /\ ch <= 57 THEN ch - 48 + 52
    ELSE IF ch = 43 THEN 62
    ELSE IF ch = 47 THEN 63
    ELSE -1

RECURSIVE EncodeToString(_)
EncodeToString(b) ==
    IF Len(b) = 0 THEN <<>>
    ELSE IF Len(b) = 1 THEN
        <<B64Char(b[1] \div 4), B64Char((b[1] % 4) * 16), PadChar, PadChar>>
    ELSE IF Len(b) = 2 THEN
        <<B64Char(b[1] \div 4), B64Char((b[1] % 4) * 16 + b[2] \div 16),
          B64Char((b[2] % 16) * 4), PadChar>>
    ELSE
        <<B64Char(b[1] \div 4), B64Char((b[1] % 4) * 16 + b[2] \div 16),
          B64Char((b[2] % 16) * 4 + b[3] \div 64), B64Char(b[3] % 64)>>
        \o EncodeToString(SubSeq(b, 4, Len(b)))

\* DecodeString: the decoded bytes, or an error for text that is not padded
\* standard base64.  Non-strict, as StdEncoding is: trailing bits are dropped.
RECURSIVE DecodeString(_)
DecodeString(s) ==
    IF Len(s) = 0 THEN [err |-> <<>>, bytes |-> <<>>]
    ELSE IF Len(s) < 4 \/ B64Index(s[1]) < 0 \/ B64Index(s[2]) < 0
    THEN [err |-> <<"illegal base64 data">>, bytes |-> <<>>]
    ELSE LET i1 == B64Index(s[1])
             i2 == B64Index(s[2])
             i3 == B64Index(s[3])
             i4 == B64Index(s[4])
             last == Len(s) = 4
         IN  IF s[3] = PadChar THEN
                 IF s[4] = PadChar /\ last
                 THEN [err |-> <<>>, bytes |-> <<i1 * 4 + i2 \div 16>>]
                 ELSE [err |-> <<"illegal base64 data">>, bytes |-> <<>>]
             ELSE IF i3 < 0 THEN [err |-> <<"illegal base64 data">>, bytes |-> <<>>]
             ELSE IF s[4] = PadChar THEN
                 IF last
                 THEN [err |-> <<>>,
                       bytes |-> <<i1 * 4 + i2 \div 16, (i2 % 16) * 16 + i3 \div 4>>]
                 ELSE [err |-> <<"illegal base64 data">>, bytes |-> <<>>]
             ELSE IF i4 < 0 THEN [err |-> <<"illegal base64 data">>, bytes |-> <<>>]
             ELSE LET rest == DecodeString(SubSeq(s, 5, Len(s)))
                  IN  IF rest.err # <<>> THEN rest
                      ELSE [err |-> <<>>,
                            bytes |-> <<i1 * 4 + i2 \div 16,
                                        (i2 % 16) * 16 + i3 \div 4,
                                        (i3 % 4) * 64 + i4>> \o rest.bytes]

----------------------------------------------------------------------------
(* golang.org/x/crypto/ssh: public keys, certificates and their wire form. *)
(* A plain key is [Type, Blob]; a certificate is [Key, CertType,           *)
(* ValidPrincipals].  The wire form is the algorithm tag and the           *)
(* length-prefixed fields; parsing rejects short input, trailing bytes and *)
(* unknown algorithms.                                                     *)

KeyAlgos == {1, 2}
CertAlgoOffset == 10
UserCert == 1
HostCert == 2

IsCertificate(pub) == "CertType" \in DOMAIN pub

TypeName(pub) ==
    IF IsCertificate(pub) THEN "*ssh.Certificate"
    ELSE IF pub.Type = 1 THEN "ssh.ed25519PublicKey"
    ELSE "*ssh.rsaPublicKey"

Marshal(pub) ==
    IF IsCertificate(pub)
    THEN <<pub.Key.Type + CertAlgoOffset, Len(pub.Key.Blob)>> \o pub.Key.Blob
         \o <<pub.CertType, Len(pub.ValidPrincipals)>> \o pub.ValidPrincipals
    ELSE <<pub.Type, Len(pub.Blob)>> \o pub.Blob

ParseError(msg) == [err |-> <<msg>>, pub |-> <<>>]

ParsePublicKey(in) ==
    IF Len(in) < 2 THEN ParseError("ssh: short read")
    ELSE IF in[1] \in KeyAlgos THEN
        IF Len(in) < 2 + in[2] THEN ParseError("ssh: short read")
        ELSE IF Len(in) > 2 + in[2] THEN ParseError("ssh: trailing junk in public key")
        ELSE [err |-> <<>>,
              pub |-> <<[Type |-> in[1], Blob |-> SubSeq(in, 3, Len(in))]>>]
    ELSE IF (in[1] - CertAlgoOffset) \in KeyAlgos THEN
        LET n == in[2] IN
        IF Len(in) < n + 4 THEN ParseError("ssh: short read")
        ELSE LET m == in[n + 4] IN
             IF Len(in) < n + 4 + m THEN ParseError("ssh: short read")
             ELSE IF Len(in) > n + 4 + m
             THEN ParseError("ssh: trailing junk in public key")
             ELSE [err |-> <<>>,
                   pub |-> <<[Key |-> [Type |-> in[1] - CertAlgoOffset,
                                       Blob |-> SubSeq(in, 3, n + 2)],
                              CertType |-> in[n + 3],
                              ValidPrincipals |-> SubSeq(in, n + 5, Len(in))]>>]
    ELSE ParseError("ssh: unknown key algorithm")

----------------------------------------------------------------------------
(* encoding/json, for one string scalar *)

QuoteChar == 34
BackslashChar == 92
NullLiteral == <<110, 117, 108, 108>>

Quoted(s) == <<QuoteChar>> \o s \o <<QuoteChar>>

\* json.Unmarshal(data, &s) for a string s that starts as "": the JSON null
\* leaves s untouched and is no error; a string literal sets s; any other
\* JSON value and any malformed text is an error.  Escape sequences are not
\* modelled: the texts fed to the model contain no backslash.
UnmarshalString(data) ==
    IF data = NullLiteral THEN [err |-> <<>>, s |-> <<>>]
    ELSE IF /\ Len(data) >= 2
            /\ data[1] = QuoteChar
            /\ data[Len(data)] = QuoteChar
            /\ \A i \in 2..(Len(data) - 1) :
                   data[i] # QuoteChar /\ data[i] # BackslashChar /\ data[i] >= 32
    THEN [err |-> <<>>, s |-> SubSeq(data, 2, Len(data) - 1)]
    ELSE [err |-> <<"json: cannot unmarshal into Go value of type string">>, s |-> <<>>]

----------------------------------------------------------------------------
(* api/ssh.go: the Certificate Container and the Public Key Container *)

\* SSHCertificate.MarshalJSON; c is the embedded *ssh.Certificate
SSHCertificateMarshalJSON(c) ==
    IF c = <<>> THEN NullLiteral
    ELSE Quoted(EncodeToString(Marshal(c[1])))

\* SSHCertificate.UnmarshalJSON without the test for the empty string
SSHCertificateUnmarshalJSONNoEmptyTest(held, data) ==
    LET js == UnmarshalString(data) IN
    IF js.err # <<>>
    THEN [err |-> Wrap(js.err, "error decoding certificate"), Certificate |-> held]
    ELSE LET certData == DecodeString(js.s) IN
         IF certData.err # <<>>
         THEN [err |-> Wrap(certData.err, "error decoding ssh certificate"),
               Certificate |-> held]
         ELSE LET parsed == ParsePublicKey(certData.bytes) IN
              IF parsed.err # <<>>
              THEN [err |-> Wrap(parsed.err, "error parsing ssh certificate"),
                    Certificate |-> held]
              ELSE IF ~IsCertificate(parsed.pub[1])
              THEN [err |-> <<"error decoding ssh certificate: %T is not an *ssh.Certificate",
                              TypeName(parsed.pub[1])>>,
                    Certificate |-> held]
              ELSE [err |-> <<>>, Certificate |-> parsed.pub]

\* SSHCertificate.UnmarshalJSON without the type assertion
SSHCertificateUnmarshalJSONNoAssertion(held, data) ==
    LET js == UnmarshalString(data) IN
    IF js.err # <<>>
    THEN [err |-> Wrap(js.err, "error decoding certificate"), Certificate |-> held]
    ELSE IF js.s = <<>> THEN [err |-> <<>>, Certificate |-> <<>>]
    ELSE LET certData == DecodeString(js.s) IN
         IF certData.err # <<>>
         THEN [err |-> Wrap(certData.err, "error decoding ssh certificate"),
               Certificate |-> held]
         ELSE LET parsed == ParsePublicKey(certData.bytes) IN
              IF parsed.err # <<>>
              THEN [err |-> Wrap(parsed.err, "error parsing ssh certificate"),
                    Certificate |-> held]
              ELSE [err |-> <<>>, Certificate |-> parsed.pub]

\* SSHCertificate.UnmarshalJSON; held is c.Certificate before the call, the
\* result carries c.Certificate after it
SSHCertificateUnmarshalJSON(held, data) ==
    LET js == UnmarshalString(data) IN
    IF js.err # <<>>
    THEN [err |-> Wrap(js.err, "error decoding certificate"), Certificate |-> held]
    ELSE IF js.s = <<>> THEN [err |-> <<>>, Certificate |-> <<>>]
    ELSE LET certData == DecodeString(js.s) IN
         IF certData.err # <<>>
         THEN [err |-> Wrap(certData.err, "error decoding ssh certificate"),
               Certificate |-> held]
         ELSE LET parsed == ParsePublicKey(certData.bytes) IN
              IF parsed.err # <<>>
              THEN [err |-> Wrap(parsed.err, "error parsing ssh certificate"),
                    Certificate |-> held]
              ELSE IF ~IsCertificate(parsed.pub[1])
              THEN [err |-> <<"error decoding ssh certificate: %T is not an *ssh.Certificate",
                              TypeName(parsed.pub[1])>>,
                    Certificate |-> held]
              ELSE [err |-> <<>>, Certificate |-> parsed.pub]

\* SSHPublicKey.MarshalJSON; p is the embedded ssh.PublicKey
SSHPublicKeyMarshalJSON(p) ==
    IF p = <<>> THEN NullLiteral
    ELSE Quoted(EncodeToString(Marshal(p[1])))

\* SSHPublicKey.UnmarshalJSON
SSHPublicKeyUnmarshalJSON(held, data) ==
    LET js == UnmarshalString(data) IN
    IF js.err # <<>>
    THEN [err |-> Wrap(js.err, "error decoding ssh public key"), PublicKey |-> held]
    ELSE IF js.s = <<>> THEN [err |-> <<>>, PublicKey |-> <<>>]
    ELSE LET keyData == DecodeString(js.s) IN
         IF keyData.err # <<>>
         THEN [err |-> Wrap(keyData.err, "error decoding ssh public key"),
               PublicKey |-> held]
         ELSE LET parsed == ParsePublicKey(keyData.bytes) IN
              IF parsed.err # <<>>
              THEN [err |-> Wrap(parsed.err, "error parsing ssh public key"),
                    PublicKey |-> held]
              ELSE [err |-> <<>>, PublicKey |-> parsed.pub]

----------------------------------------------------------------------------
(* api/ssh.go: request validation *)

SSHUserCert == "user"
SSHHostCert == "host"

\* SSHSignRequest.Validate with the publicKey case before the certType case
SSHSignRequestValidateKeyFirst(s) ==
    IF Len(s.PublicKey) = 0
    THEN [err |-> <<"missing or empty publicKey">>, s |-> s]
    ELSE IF s.CertType # "" /\ s.CertType # "user" /\ s.CertType # "host"
    THEN [err |-> <<"unknown certType %s", s.CertType>>, s |-> s]
    ELSE IF Len(s.OTT) = 0
    THEN [err |-> <<"missing or empty ott">>, s |-> s]
    ELSE [err |-> <<>>, s |-> s]

\* SSHSignRequest.Validate: the error and the request as the call leaves it
SSHSignRequestValidate(s) ==
    IF s.CertType # "" /\ s.CertType # SSHUserCert /\ s.CertType # SSHHostCert
    THEN [err |-> <<"unknown certType %s", s.CertType>>, s |-> s]
    ELSE IF Len(s.PublicKey) = 0
    THEN [err |-> <<"missing or empty publicKey">>, s |-> s]
    ELSE IF Len(s.OTT) = 0
    THEN [err |-> <<"missing or empty ott">>, s |-> s]
    ELSE [err |-> <<>>, s |-> s]

\* SSHConfigRequest.Validate on a copy of the request (a value receiver): the
\* default type is lost
SSHConfigRequestValidateByValue(r) ==
    IF r.Type = "" \/ r.Type = "user" \/ r.Type = "host"
    THEN [err |-> <<>>, r |-> r]
    ELSE [err |-> <<"unsupported type %s", r.Type>>, r |-> r]

\* SSHConfigRequest.Validate: the error and the request as the call leaves it
SSHConfigRequestValidate(r) ==
    IF r.Type = ""
    THEN [err |-> <<>>, r |-> [r EXCEPT !.Type = SSHUserCert]]
    ELSE IF r.Type = SSHUserCert \/ r.Type = SSHHostCert
    THEN [err |-> <<>>, r |-> r]
    ELSE [err |-> <<"unsupported type %s", r.Type>>, r |-> r]

----------------------------------------------------------------------------
(* HTTP statuses written by WriteError / WriteHeader / JSON *)

StatusOK == 200
StatusCreated == 201
StatusBadRequest == 400
StatusUnauthorized == 401
StatusForbidden == 403
StatusNotFound == 404
StatusInternalServerError == 500

ErrorBody(err) == <<[error |-> err]>>

----------------------------------------------------------------------------
(* Inputs and collaborator outcomes *)

Idle == {"idle"}

BlobBytes == {0, 77, 255}
PrincipalNames == {1, 2}

Blobs == SeqsUpTo(BlobBytes, MaxBlobLen)
PlainKeys == {[Type |-> t, Blob |-> b] : t \in KeyAlgos, b \in Blobs}
PrincipalLists == SeqsUpTo(PrincipalNames, MaxPrincipals)
Certificates ==
    {[Key |-> k, CertType |-> ct, ValidPrincipals |-> ps] :
        k \in PlainKeys, ct \in {UserCert, HostCert}, ps \in PrincipalLists}

Key1 == [Type |-> 1, Blob |-> <<77>>]
Key2 == [Type |-> 2, Blob |-> <<0, 255>>]
Cert1 == [Key |-> Key1, CertType |-> UserCert, ValidPrincipals |-> <<1>>]

NoSign ==
    [raw |-> <<>>, body |-> <<>>, publicKey |-> <<>>, addUserPublicKey |-> <<>>,
     cert |-> <<>>, addUserCertificate |-> <<>>]
NoRender == [raw |-> <<>>, body |-> <<>>]
NoConf == [c |-> <<>>, before |-> <<>>, err |-> <<>>, runs |-> 0]
NoCodec ==
    [kind |-> "", encoded |-> FALSE, v |-> <<>>, data |-> <<>>,
     held |-> <<>>, prev |-> <<>>, err |-> <<>>, out |-> <<>>]

----------------------------------------------------------------------------
(* api/ssh.go: caHandler.SSHSign, one action per step of the handler *)

\* request bodies as ReadJSON delivers them; <<>> is a body ReadJSON rejects.
\* validAfter / validBefore are passed through to SignSSH untouched and are
\* left out.
SignPublicKeys == {<<>>, Marshal(Key1), Marshal(Cert1), <<9, 0>>}
SignAddUserKeys == {<<>>, <<<<>>>>, <<Marshal(Key2)>>, <<<<1, 5, 0>>>>}
SignBodies ==
    {<<>>} \cup
    {<<[PublicKey |-> pk, OTT |-> ott, CertType |-> ct, Principals |-> ps,
        AddUserPublicKey |-> au]>> :
        pk \in SignPublicKeys, ott \in {"", "token"},
        ct \in {"", SSHUserCert, SSHHostCert, "X"},
        ps \in PrincipalLists, au \in SignAddUserKeys}

\* what SignSSH may return: nil with an error, or an issued certificate whose
\* type and principals the authority chooses
SignSSHResults ==
    {<<>>} \cup
    {<<[Key |-> Key1, CertType |-> ct, ValidPrincipals |-> ps]>> :
        ct \in {UserCert, HostCert}, ps \in PrincipalLists}

SignSSHAddUserResults(cert) ==
    {<<>>, <<[Key |-> Key2, CertType |-> UserCert,
              ValidPrincipals |-> cert.ValidPrincipals]>>}

SignFail(status, err) ==
    /\ written' = Append(written, status)
    /\ resp' = ErrorBody(err)
    /\ pc' = "done"

SignReadJSON ==
    /\ pc \in Idle
    /\ \E raw \in SignBodies :
        /\ op' = "SSHSign"
        /\ steps' = <<"ReadJSON">>
        /\ calls' = <<>>
        /\ conf' = NoConf
        /\ codec' = NoCodec
        /\ render' = NoRender
        /\ UNCHANGED DefaultTLSOptions
        /\ IF raw = <<>>
           THEN /\ sign' = [NoSign EXCEPT !.raw = raw]
                /\ written' = <<StatusBadRequest>>
                /\ resp' = ErrorBody(<<"error reading request body">>)
                /\ pc' = "done"
           ELSE /\ sign' = [NoSign EXCEPT !.raw = raw, !.body = raw]
                /\ written' = <<>>
                /\ resp' = <<>>
                /\ pc' = "sign_validate"

SignValidate ==
    /\ pc = "sign_validate"
    /\ steps' = Append(steps, "Validate")
    /\ LET v == SSHSignRequestValidate(sign.body[1]) IN
        /\ sign' = [sign EXCEPT !.body = <<v.s>>]
        /\ IF v.err # <<>>
           THEN SignFail(StatusBadRequest, v.err)
           ELSE pc' = "sign_publickey" /\ UNCHANGED <<written, resp>>
    /\ UNCHANGED <<op, calls, conf, DefaultTLSOptions, codec, render>>

SignParsePublicKey ==
    /\ pc = "sign_publickey"
    /\ steps' = Append(steps, "ParsePublicKey")
    /\ LET parsed == ParsePublicKey(sign.body[1].PublicKey) IN
        IF parsed.err # <<>>
        THEN /\ SignFail(StatusBadRequest, Wrap(parsed.err, "error parsing publicKey"))
             /\ UNCHANGED sign
        ELSE /\ sign' = [sign EXCEPT !.publicKey = parsed.pub]
             /\ pc' = "sign_adduserkey"
             /\ UNCHANGED <<written, resp>>
    /\ UNCHANGED <<op, calls, conf, DefaultTLSOptions, codec, render>>

SignParseAddUserPublicKey ==
    /\ pc = "sign_adduserkey"
    /\ IF sign.body[1].AddUserPublicKey # <<>>
       THEN /\ steps' = Append(steps, "ParseAddUserPublicKey")
            /\ LET parsed == ParsePublicKey(sign.body[1].AddUserPublicKey[1]) IN
                IF parsed.err # <<>>
                THEN /\ SignFail(StatusBadRequest,
                                 Wrap(parsed.err, "error parsing addUserPublicKey"))
                     /\ UNCHANGED sign
                ELSE /\ sign' = [sign EXCEPT !.addUserPublicKey = parsed.pub]
                     /\ pc' = "sign_authorize"
                     /\ UNCHANGED <<written, resp>>
       ELSE /\ pc' = "sign_authorize"
            /\ UNCHANGED <<steps, sign, written, resp>>
    /\ UNCHANGED <<op, calls, conf, DefaultTLSOptions, codec, render>>

\* SignAuthorize without the return after WriteError: the handler goes on to
\* SignSSH after a refused token
SignAuthorizeNoReturn ==
    /\ pc = "sign_authorize"
    /\ steps' = Append(steps, "Authorize")
    /\ calls' = Append(calls, [fn |-> "Authorize", method |-> "SignSSHMethod",
                               ott |-> sign.body[1].OTT])
    /\ \E authorized \in BOOLEAN :
        IF ~authorized
        THEN /\ written' = Append(written, StatusUnauthorized)
             /\ resp' = ErrorBody(<<"authorization failed">>)
             /\ pc' = "sign_signssh"
        ELSE pc' = "sign_signssh" /\ UNCHANGED <<written, resp>>
    /\ UNCHANGED <<op, sign, conf, DefaultTLSOptions, codec, render>>

SignAuthorize ==
    /\ pc = "sign_authorize"
    /\ steps' = Append(steps, "Authorize")
    /\ calls' = Append(calls, [fn |-> "Authorize", method |-> "SignSSHMethod",
                               ott |-> sign.body[1].OTT])
    /\ \E authorized \in BOOLEAN :
        IF ~authorized
        THEN SignFail(StatusUnauthorized, <<"authorization failed">>)
        ELSE pc' = "sign_signssh" /\ UNCHANGED <<written, resp>>
    /\ UNCHANGED <<op, sign, conf, DefaultTLSOptions, codec, render>>

SignSignSSH ==
    /\ pc = "sign_signssh"
    /\ steps' = Append(steps, "SignSSH")
    /\ calls' = Append(calls,
           [fn |-> "SignSSH", key |-> sign.publicKey[1],
            opts |-> [CertType |-> sign.body[1].CertType,
                      Principals |-> sign.body[1].Principals]])
    /\ \E issued \in SignSSHResults :
        IF issued = <<>>
        THEN /\ SignFail(StatusForbidden, <<"signing refused">>)
             /\ UNCHANGED sign
        ELSE /\ sign' = [sign EXCEPT !.cert = issued]
             /\ pc' = "sign_adduser"
             /\ UNCHANGED <<written, resp>>
    /\ UNCHANGED <<op, conf, DefaultTLSOptions, codec, render>>

\* AddUserPolicy without the test on the number of principals
AddUserPolicyAnyPrincipals(addUserPublicKey, cert) ==
    /\ addUserPublicKey # <<>>
    /\ cert.CertType = UserCert

\* the condition of the add-user branch
AddUserPolicy(addUserPublicKey, cert) ==
    /\ addUserPublicKey # <<>>
    /\ cert.CertType = UserCert
    /\ Len(cert.ValidPrincipals) = 1

SignAddUser ==
    /\ pc = "sign_adduser"
    /\ IF AddUserPolicy(sign.addUserPublicKey, sign.cert[1])
       THEN /\ steps' = Append(steps, "SignSSHAddUser")
            /\ calls' = Append(calls,
                   [fn |-> "SignSSHAddUser", key |-> sign.addUserPublicKey[1],
                    cert |-> sign.cert[1]])
            /\ \E addUserCert \in SignSSHAddUserResults(sign.cert[1]) :
                IF addUserCert = <<>>
                THEN /\ SignFail(StatusForbidden, <<"signing refused">>)
                     /\ UNCHANGED sign
                ELSE /\ sign' = [sign EXCEPT
                            !.addUserCertificate = <<[Certificate |-> addUserCert]>>]
                     /\ pc' = "sign_respond"
                     /\ UNCHANGED <<written, resp>>
       ELSE /\ pc' = "sign_respond"
            /\ UNCHANGED <<steps, calls, sign, written, resp>>
    /\ UNCHANGED <<op, conf, DefaultTLSOptions, codec, render>>

SignRespond ==
    /\ pc = "sign_respond"
    /\ steps' = Append(steps, "Respond")
    /\ written' = Append(written, StatusCreated)
    /\ resp' = <<[Certificate |-> [Certificate |-> sign.cert],
                  AddUserCertificate |-> sign.addUserCertificate]>>
    /\ pc' = "done"
    /\ UNCHANGED <<op, calls, sign, conf, DefaultTLSOptions, codec, render>>

----------------------------------------------------------------------------
(* api/ssh.go: caHandler.SSHRoots and caHandler.SSHFederation *)

\* what GetSSHRoots / GetSSHFederation may return: nil with an error, or the
\* user and host keys
KeyLists == SeqsUpTo({Key1, Key2}, MaxKeys)
SSHKeysResults ==
    {<<>>} \cup {<<[UserKeys |-> u, HostKeys |-> h]>> : u \in KeyLists, h \in KeyLists}

\* the range loops that wrap each key in an SSHPublicKey
WrapKeys(ks) == [i \in 1..Len(ks) |-> [PublicKey |-> <<ks[i]>>]]

\* SSHRoots with || for && in the no-keys test
SSHRootsOutcomeEitherEmpty(keys) ==
    IF keys = <<>>
    THEN [status |-> StatusInternalServerError, body |-> ErrorBody(<<"GetSSHRoots failed">>)]
    ELSE IF Len(keys[1].HostKeys) = 0 \/ Len(keys[1].UserKeys) = 0
    THEN [status |-> StatusNotFound, body |-> ErrorBody(<<"no keys found">>)]
    ELSE [status |-> StatusOK,
          body |-> <<[HostKeys |-> WrapKeys(keys[1].HostKeys),
                      UserKeys |-> WrapKeys(keys[1].UserKeys)]>>]

\* the handler's status and body for a collaborator result
SSHRootsOutcome(keys) ==
    IF keys = <<>>
    THEN [status |-> StatusInternalServerError, body |-> ErrorBody(<<"GetSSHRoots failed">>)]
    ELSE IF Len(keys[1].HostKeys) = 0 /\ Len(keys[1].UserKeys) = 0
    THEN [status |-> StatusNotFound, body |-> ErrorBody(<<"no keys found">>)]
    ELSE [status |-> StatusOK,
          body |-> <<[HostKeys |-> WrapKeys(keys[1].HostKeys),
                      UserKeys |-> WrapKeys(keys[1].UserKeys)]>>]

SSHFederationOutcome(keys) ==
    IF keys = <<>>
    THEN [status |-> StatusInternalServerError,
          body |-> ErrorBody(<<"GetSSHFederation failed">>)]
    ELSE IF Len(keys[1].HostKeys) = 0 /\ Len(keys[1].UserKeys) = 0
    THEN [status |-> StatusNotFound, body |-> ErrorBody(<<"no keys found">>)]
    ELSE [status |-> StatusOK,
          body |-> <<[HostKeys |-> WrapKeys(keys[1].HostKeys),
                      UserKeys |-> WrapKeys(keys[1].UserKeys)]>>]

SSHRoots ==
    /\ pc \in Idle
    /\ \E keys \in SSHKeysResults :
        /\ calls' = <<[fn |-> "GetSSHRoots", ret |-> keys]>>
        /\ written' = <<SSHRootsOutcome(keys).status>>
        /\ resp' = SSHRootsOutcome(keys).body
    /\ op' = "SSHRoots"
    /\ steps' = <<"GetSSHRoots">>
    /\ pc' = "done"
    /\ sign' = NoSign
    /\ conf' = NoConf
    /\ codec' = NoCodec
    /\ render' = NoRender
    /\ UNCHANGED DefaultTLSOptions

SSHFederation ==
    /\ pc \in Idle
    /\ \E keys \in SSHKeysResults :
        /\ calls' = <<[fn |-> "GetSSHFederation", ret |-> keys]>>
        /\ written' = <<SSHFederationOutcome(keys).status>>
        /\ resp' = SSHFederationOutcome(keys).body
    /\ op' = "SSHFederation"
    /\ steps' = <<"GetSSHFederation">>
    /\ pc' = "done"
    /\ sign' = NoSign
    /\ conf' = NoConf
    /\ codec' = NoCodec
    /\ render' = NoRender
    /\ UNCHANGED DefaultTLSOptions

----------------------------------------------------------------------------
(* api/ssh.go: caHandler.SSHConfig *)

\* request bodies as ReadJSON delivers them; <<>> is a body ReadJSON rejects
ConfigBodies ==
    {<<>>} \cup
    {<<[Type |-> t, Data |-> d]>> :
        t \in {"", SSHUserCert, SSHHostCert, "X", "USER"},
        d \in {<<>>, <<"User=alice">>}}

\* what GetSSHConfig may return: nil with an error, or the rendered templates
TemplateLists == {<<"ssh_config">>, <<"ssh_config", "known_hosts">>}
SSHConfigResults == {<<>>} \cup {<<ts>> : ts \in TemplateLists}

\* the switch on body.Type that fills the response
SSHConfigResponse(typ, ts) ==
    IF typ = SSHUserCert
    THEN [status |-> StatusOK,
          body |-> <<[UserTemplates |-> ts, HostTemplates |-> <<>>]>>]
    ELSE IF typ = SSHHostCert
    THEN [status |-> StatusOK,
          body |-> <<[UserTemplates |-> <<>>, HostTemplates |-> ts]>>]
    ELSE [status |-> StatusInternalServerError,
          body |-> ErrorBody(<<"it should hot get here">>)]

\* the whole handler: the request as Validate leaves it, the collaborator
\* calls made, the status written and the body; result is what GetSSHConfig
\* returns if it is called
SSHConfigOutcome(raw, result) ==
    IF raw = <<>>
    THEN [body |-> <<>>, calls |-> <<>>, status |-> StatusBadRequest,
          resp |-> ErrorBody(<<"error reading request body">>)]
    ELSE LET v == SSHConfigRequestValidate(raw[1]) IN
         IF v.err # <<>>
         THEN [body |-> <<v.r>>, calls |-> <<>>, status |-> StatusBadRequest,
               resp |-> ErrorBody(v.err)]
         ELSE LET call == [fn |-> "GetSSHConfig", typ |-> v.r.Type,
                           data |-> v.r.Data, ret |-> result]
              IN  IF result = <<>>
                  THEN [body |-> <<v.r>>, calls |-> <<call>>,
                        status |-> StatusInternalServerError,
                        resp |-> ErrorBody(<<"GetSSHConfig failed">>)]
                  ELSE [body |-> <<v.r>>, calls |-> <<call>>,
                        status |-> SSHConfigResponse(v.r.Type, result[1]).status,
                        resp |-> SSHConfigResponse(v.r.Type, result[1]).body]

SSHConfig ==
    /\ pc \in Idle
    /\ \E raw \in ConfigBodies, result \in SSHConfigResults :
        LET o == SSHConfigOutcome(raw, result) IN
        /\ calls' = o.calls
        /\ written' = <<o.status>>
        /\ resp' = o.resp
        /\ render' = [raw |-> raw, body |-> o.body]
    /\ op' = "SSHConfig"
    /\ steps' = <<"SSHConfig">>
    /\ pc' = "done"
    /\ conf' = NoConf
    /\ codec' = NoCodec
    /\ sign' = NoSign
    /\ UNCHANGED DefaultTLSOptions

----------------------------------------------------------------------------
(* authority/config.go *)

\* the initial value of the package variable DefaultTLSOptions
DefaultTLSOptionsValue ==
    [CipherSuites |-> <<"TLS_ECDHE_ECDSA_WITH_CHACHA20_POLY1305",
                        "TLS_ECDHE_RSA_WITH_AES_128_GCM_SHA256",
                        "TLS_ECDHE_ECDSA_WITH_AES_256_GCM_SHA384">>,
     MinVersion |-> 12,
     MaxVersion |-> 12,
     Renegotiation |-> FALSE]

\* the package constants, in seconds
minCertDuration == 5 * 60
maxCertDuration == 24 * 3600

\* AuthConfig.Validate that does not tell a nil AuthConfig from one without
\* provisioners
AuthConfigValidateNilAsEmpty(c) ==
    IF c = <<>> \/ Len(c[1].Provisioners) = 0
    THEN [err |-> <<"authority.provisioners cannot be empty">>, c |-> c]
    ELSE [err |-> <<>>,
          c |-> IF c[1].Template = <<>>
                THEN <<[c[1] EXCEPT !.Template = <<"ASN1DN{}">>]>>
                ELSE c]

\* AuthConfig.Validate that installs the built-in durations
AuthConfigValidateDefaultDurations(c) ==
    IF c = <<>>
    THEN [err |-> <<"authority cannot be undefined">>, c |-> c]
    ELSE IF Len(c[1].Provisioners) = 0
    THEN [err |-> <<"authority.provisioners cannot be empty">>, c |-> c]
    ELSE [err |-> <<>>,
          c |-> <<[c[1] EXCEPT
                      !.Template = IF @ = <<>> THEN <<"ASN1DN{}">> ELSE @,
                      !.MinCertDuration = IF @ = <<>> THEN <<minCertDuration>> ELSE @,
                      !.MaxCertDuration = IF @ = <<>> THEN <<maxCertDuration>> ELSE @]>>]

\* AuthConfig.Validate on the pointer c (nil is <<>>): the error and the
\* AuthConfig as the call leaves it
AuthConfigValidate(c) ==
    IF c = <<>>
    THEN [err |-> <<"authority cannot be undefined">>, c |-> c]
    ELSE IF Len(c[1].Provisioners) = 0
    THEN [err |-> <<"authority.provisioners cannot be empty">>, c |-> c]
    ELSE [err |-> <<>>,
          c |-> IF c[1].Template = <<>>
                THEN <<[c[1] EXCEPT !.Template = <<"ASN1DN{}">>]>>
                ELSE c]

\* c.TLS is a pointer: nil, the Config's own TLSOptions (kept in c.tlsOptions)
\* or the address of the package variable.  mem holds both targets.
TLSLoad(mem, ptr) == IF ptr = "&DefaultTLSOptions" THEN mem.def ELSE mem.own
TLSStore(mem, ptr, t) ==
    IF ptr = "&DefaultTLSOptions" THEN [mem EXCEPT !.def = t] ELSE [mem EXCEPT !.own = t]

\* the TLS block with minVersion defaulted from the built-in maxVersion
\* instead of the Config's
ValidateTLSMinFromDefault(mem, ptr) ==
    LET m1 == IF Len(TLSLoad(mem, ptr).CipherSuites) = 0
              THEN TLSStore(mem, ptr,
                       [TLSLoad(mem, ptr) EXCEPT !.CipherSuites = mem.def.CipherSuites])
              ELSE mem
        m2 == IF TLSLoad(m1, ptr).MaxVersion = 0
              THEN TLSStore(m1, ptr,
                       [TLSLoad(m1, ptr) EXCEPT !.MaxVersion = m1.def.MaxVersion])
              ELSE m1
        m3 == IF TLSLoad(m2, ptr).MinVersion = 0
              THEN TLSStore(m2, ptr,
                       [TLSLoad(m2, ptr) EXCEPT !.MinVersion = m2.def.MaxVersion])
              ELSE m2
    IN  IF TLSLoad(m3, ptr).MinVersion > TLSLoad(m3, ptr).MaxVersion
        THEN [err |-> <<"tls minVersion cannot exceed tls maxVersion">>, mem |-> m3]
        ELSE [err |-> <<>>,
              mem |-> TLSStore(m3, ptr,
                          [TLSLoad(m3, ptr) EXCEPT
                              !.Renegotiation = TLSLoad(m3, ptr).Renegotiation
                                                \/ m3.def.Renegotiation])]

\* the else branch of the TLS block of Config.Validate, statement by
\* statement: the error and the memory as the block leaves it
ValidateTLS(mem, ptr) ==
    LET m1 == IF Len(TLSLoad(mem, ptr).CipherSuites) = 0
              THEN TLSStore(mem, ptr,
                       [TLSLoad(mem, ptr) EXCEPT !.CipherSuites = mem.def.CipherSuites])
              ELSE mem
        m2 == IF TLSLoad(m1, ptr).MaxVersion = 0
              THEN TLSStore(m1, ptr,
                       [TLSLoad(m1, ptr) EXCEPT !.MaxVersion = m1.def.MaxVersion])
              ELSE m1
        m3 == IF TLSLoad(m2, ptr).MinVersion = 0
              THEN TLSStore(m2, ptr,
                       [TLSLoad(m2, ptr) EXCEPT !.MinVersion = TLSLoad(m2, ptr).MaxVersion])
              ELSE m2
    IN  IF TLSLoad(m3, ptr).MinVersion > TLSLoad(m3, ptr).MaxVersion
        THEN [err |-> <<"tls minVersion cannot exceed tls maxVersion">>, mem |-> m3]
        ELSE [err |-> <<>>,
              mem |-> TLSStore(m3, ptr,
                          [TLSLoad(m3, ptr) EXCEPT
                              !.Renegotiation = TLSLoad(m3, ptr).Renegotiation
                                                \/ m3.def.Renegotiation])]

\* Config.Validate: the error, the Config and the package variable as the
\* call leaves them
ConfigValidate(c, def) ==
    IF c.Address = "" THEN [err |-> <<"address cannot be empty">>, c |-> c, def |-> def]
    ELSE IF c.Root = "" THEN [err |-> <<"root cannot be empty">>, c |-> c, def |-> def]
    ELSE IF c.IntermediateCert = ""
    THEN [err |-> <<"crt cannot be empty">>, c |-> c, def |-> def]
    ELSE IF c.IntermediateKey = ""
    THEN [err |-> <<"key cannot be empty">>, c |-> c, def |-> def]
    ELSE IF Len(c.DNSNames) = 0
    THEN [err |-> <<"dnsNames cannot be empty">>, c |-> c, def |-> def]
    ELSE IF c.TLS = <<>>
    THEN LET a == AuthConfigValidate(c.AuthorityConfig) IN
         [err |-> a.err,
          c |-> [c EXCEPT !.TLS = <<"&DefaultTLSOptions">>, !.AuthorityConfig = a.c],
          def |-> def]
    ELSE LET t == ValidateTLS([own |-> c.tlsOptions, def |-> def], c.TLS[1]) IN
         IF t.err # <<>>
         THEN [err |-> t.err, c |-> [c EXCEPT !.tlsOptions = t.mem.own], def |-> t.mem.def]
         ELSE LET a == AuthConfigValidate(c.AuthorityConfig) IN
              [err |-> a.err,
               c |-> [c EXCEPT !.tlsOptions = t.mem.own, !.AuthorityConfig = a.c],
               def |-> t.mem.def]

\* the TLS policy a Config refers to
TLSOf(c, def) == TLSLoad([own |-> c.tlsOptions, def |-> def], c.TLS[1])

\* configurations as LoadConfiguration delivers them: a "tls" object of the
\* document is always the Config's own TLSOptions
MaxValidates == 2
Versions == {0, 11, 13}
ZeroTLSOptions ==
    [CipherSuites |-> <<>>, MinVersion |-> 0, MaxVersion |-> 0, Renegotiation |-> FALSE]
TLSConfigs ==
    {[TLS |-> <<>>, tlsOptions |-> ZeroTLSOptions]} \cup
    {[TLS |-> <<"own">>,
      tlsOptions |-> [CipherSuites |-> cs, MinVersion |-> mn, MaxVersion |-> mx,
                      Renegotiation |-> rn]] :
        cs \in {<<>>, <<"TLS_AES_128_GCM_SHA256">>}, mn \in Versions, mx \in Versions,
        rn \in BOOLEAN}
AuthConfigs ==
    {<<>>} \cup
    {<<[Provisioners |-> ps, Template |-> t, MinCertDuration |-> mn,
        MaxCertDuration |-> mx]>> :
        ps \in {<<>>, <<"provisioner">>}, t \in {<<>>, <<"ASN1DN{O}">>},
        mn \in {<<>>, <<60>>}, mx \in {<<>>, <<3600>>}}
Configs ==
    {[Address |-> ad, Root |-> ro, IntermediateCert |-> ic, IntermediateKey |-> ik,
      DNSNames |-> dn, TLS |-> t.TLS, tlsOptions |-> t.tlsOptions,
      AuthorityConfig |-> ac] :
        ad \in {"", ":443"}, ro \in {"", "root.crt"}, ic \in {"", "ca.crt"},
        ik \in {"", "ca.key"}, dn \in {<<>>, <<"ca.example.com">>},
        t \in TLSConfigs, ac \in AuthConfigs}

LoadConfiguration ==
    /\ pc \in Idle
    /\ \E c \in Configs : conf' = [c |-> <<c>>, before |-> <<>>, err |-> <<>>, runs |-> 0]
    /\ op' = "Config"
    /\ steps' = <<"LoadConfiguration">>
    /\ pc' = "config"
    /\ calls' = <<>>
    /\ written' = <<>>
    /\ resp' = <<>>
    /\ sign' = NoSign
    /\ render' = NoRender
    /\ codec' = NoCodec
    /\ UNCHANGED DefaultTLSOptions

Validate ==
    /\ pc = "config"
    /\ conf.runs < MaxValidates
    /\ LET v == ConfigValidate(conf.c[1], DefaultTLSOptions) IN
        /\ conf' = [c |-> <<v.c>>, before |-> conf.c, err |-> v.err, runs |-> conf.runs + 1]
        /\ DefaultTLSOptions' = v.def
    /\ steps' = Append(steps, "Validate")
    /\ UNCHANGED <<pc, op, calls, written, resp, sign, render, codec>>

----------------------------------------------------------------------------
(* The containers at work: a value is marshalled, the text is unmarshalled  *)
(* into a container that holds some earlier value, and the result is        *)
(* marshalled again.  Text may also arrive from outside.                    *)

PublicKeys == PlainKeys \cup Certificates

\* texts that no MarshalJSON produced: other JSON values, malformed JSON, the
\* empty string, bad base64, bad wire data and non-canonical base64
RawTexts ==
    {NullLiteral, <<49>>, <<116, 114, 117, 101>>, <<123, 125>>, <<>>, <<QuoteChar>>,
     Quoted(<<>>), Quoted(<<65>>), Quoted(<<65, 65, 42, 61>>), Quoted(<<65, 61, 61, 61>>),
     Quoted(<<65, 65, 61, 61>>), Quoted(EncodeToString(<<9, 0>>)),
     Quoted(EncodeToString(<<1, 5, 0>>)), Quoted(EncodeToString(<<1, 0, 0>>)),
     Quoted(EncodeToString(<<11, 0, 1>>)), Quoted(<<65, 81, 65, 61>>),
     Quoted(<<65, 81, 66, 61>>), Quoted(EncodeToString(Marshal(Key1))),
     Quoted(EncodeToString(Marshal(Key2))), Quoted(EncodeToString(Marshal(Cert1)))}

HeldBefore(kind) ==
    IF kind = "SSHCertificate" THEN {<<>>, <<Cert1>>} ELSE {<<>>, <<Key2>>, <<Cert1>>}

\* the container and the text at the start: held is what the container that
\* will receive the text holds
CodecStart(kind, encoded, v, data, prev) ==
    [kind |-> kind, encoded |-> encoded, v |-> v, data |-> data,
     held |-> prev, prev |-> prev, err |-> <<>>, out |-> <<>>]

MarshalCertificate ==
    /\ pc \in Idle
    /\ \E v \in Opt(Certificates), prev \in HeldBefore("SSHCertificate") :
        codec' = CodecStart("SSHCertificate", TRUE, v, SSHCertificateMarshalJSON(v), prev)
    /\ op' = "SSHCertificate"
    /\ steps' = <<"MarshalJSON">>
    /\ pc' = "decode"
    /\ UNCHANGED <<calls, written, resp, sign, render, conf, DefaultTLSOptions>>

MarshalPublicKey ==
    /\ pc \in Idle
    /\ \E v \in Opt(PublicKeys), prev \in HeldBefore("SSHPublicKey") :
        codec' = CodecStart("SSHPublicKey", TRUE, v, SSHPublicKeyMarshalJSON(v), prev)
    /\ op' = "SSHPublicKey"
    /\ steps' = <<"MarshalJSON">>
    /\ pc' = "decode"
    /\ UNCHANGED <<calls, written, resp, sign, render, conf, DefaultTLSOptions>>

ReceiveText ==
    /\ pc \in Idle
    /\ \E kind \in {"SSHCertificate", "SSHPublicKey"}, data \in RawTexts :
        \E prev \in HeldBefore(kind) :
            /\ codec' = CodecStart(kind, FALSE, <<>>, data, prev)
            /\ op' = kind
    /\ steps' = <<"text">>
    /\ pc' = "decode"
    /\ UNCHANGED <<calls, written, resp, sign, render, conf, DefaultTLSOptions>>

UnmarshalCertificate ==
    /\ pc = "decode"
    /\ codec.kind = "SSHCertificate"
    /\ LET r == SSHCertificateUnmarshalJSON(codec.held, codec.data) IN
        /\ codec' = [codec EXCEPT !.held = r.Certificate, !.err = r.err]
        /\ pc' = IF r.err = <<>> THEN "reencode" ELSE "done"
    /\ steps' = Append(steps, "UnmarshalJSON")
    /\ UNCHANGED <<op, calls, written, resp, sign, render, conf, DefaultTLSOptions>>

UnmarshalPublicKey ==
    /\ pc = "decode"
    /\ codec.kind = "SSHPublicKey"
    /\ LET r == SSHPublicKeyUnmarshalJSON(codec.held, codec.data) IN
        /\ codec' = [codec EXCEPT !.held = r.PublicKey, !.err = r.err]
        /\ pc' = IF r.err = <<>> THEN "reencode" ELSE "done"
    /\ steps' = Append(steps, "UnmarshalJSON")
    /\ UNCHANGED <<op, calls, written, resp, sign, render, conf, DefaultTLSOptions>>

RemarshalCertificate ==
    /\ pc = "reencode"
    /\ codec.kind = "SSHCertificate"
    /\ codec' = [codec EXCEPT !.out = SSHCertificateMarshalJSON(codec.held)]
    /\ pc' = "done"
    /\ steps' = Append(steps, "MarshalJSON")
    /\ UNCHANGED <<op, calls, written, resp, sign, render, conf, DefaultTLSOptions>>

RemarshalPublicKey ==
    /\ pc = "reencode"
    /\ codec.kind = "SSHPublicKey"
    /\ codec' = [codec EXCEPT !.out = SSHPublicKeyMarshalJSON(codec.held)]
    /\ pc' = "done"
    /\ steps' = Append(steps, "MarshalJSON")
    /\ UNCHANGED <<op, calls, written, resp, sign, render, conf, DefaultTLSOptions>>

----------------------------------------------------------------------------
(* The specification *)

Init ==
    /\ pc = "idle"
    /\ op = ""
    /\ steps = <<>>
    /\ calls = <<>>
    /\ written = <<>>
    /\ resp = <<>>
    /\ sign = NoSign
    /\ render = NoRender
    /\ conf = NoConf
    /\ DefaultTLSOptions = DefaultTLSOptionsValue
    /\ codec = NoCodec

Next ==
    \/ SignReadJSON
    \/ SignValidate
    \/ SignParsePublicKey
    \/ SignParseAddUserPublicKey
    \/ SignAuthorize
    \/ SignSignSSH
    \/ SignAddUser
    \/ SignRespond
    \/ SSHRoots
    \/ SSHFederation
    \/ SSHConfig
    \/ LoadConfiguration
    \/ Validate
    \/ MarshalCertificate
    \/ MarshalPublicKey
    \/ ReceiveText
    \/ UnmarshalCertificate
    \/ UnmarshalPublicKey
    \/ RemarshalCertificate
    \/ RemarshalPublicKey

Spec == Init /\ [][Next]_vars

----------------------------------------------------------------------------
(* Properties of caHandler.SSHSign *)

Last(s) == s[Len(s)]
IsErrorBody(r) == r # <<>> /\ "error" \in DOMAIN r[1]

SignOrder ==
    <<"ReadJSON", "Validate", "ParsePublicKey", "ParseAddUserPublicKey",
      "Authorize", "SignSSH", "SignSSHAddUser", "Respond">>
StepIndex(name) == CHOOSE i \in 1..Len(SignOrder) : SignOrder[i] = name
Collaborators == {"Authorize", "SignSSH", "SignSSHAddUser"}
IsCollaborator(name) == name \in Collaborators
CallName(call) == call.fn
CallNames == [i \in 1..Len(calls) |-> CallName(calls[i])]

\* the status the spec's table gives to a failure of a step
FailureStatus(name) ==
    IF StepIndex(name) <= 4 THEN StatusBadRequest
    ELSE IF name = "Authorize" THEN StatusUnauthorized
    ELSE StatusForbidden

\* C1: SSHSign is a linear early-exit workflow.  The executed steps are in the
\* order decode, Validate, parse publicKey, parse addUserPublicKey (when
\* present), Authorize, SignSSH, conditional SignSSHAddUser, respond, with no
\* step skipped but the two conditional ones; the collaborator calls are
\* exactly the executed collaborator steps, each at most once; a status is
\* written only when the handler ends and then exactly one: that of the step
\* that failed (400 for steps 1-4, 401 for Authorize, 403 for SignSSH and
\* SignSSHAddUser), which is the last step executed, and 201 if and only if no
\* step failed.
C1_LinearEarlyExit ==
    op = "SSHSign" =>
        /\ \A i \in 1..Len(steps) : steps[i] \in {SignOrder[k] : k \in 1..Len(SignOrder)}
        /\ \A i, j \in 1..Len(steps) : i < j => StepIndex(steps[i]) < StepIndex(steps[j])
        /\ \A i \in 1..Len(steps) : \A k \in {1, 2, 3, 5, 6} :
               k < StepIndex(steps[i]) => \E j \in 1..Len(steps) : steps[j] = SignOrder[k]
        /\ ("Authorize" \in {steps[i] : i \in 1..Len(steps)} =>
               (("ParseAddUserPublicKey" \in {steps[i] : i \in 1..Len(steps)})
                   <=> sign.raw[1].AddUserPublicKey # <<>>))
        /\ CallNames = SelectSeq(steps, IsCollaborator)
        /\ \A c \in Collaborators : Cardinality({i \in 1..Len(calls) : calls[i].fn = c}) <= 1
        /\ Len(written) = (IF pc = "done" THEN 1 ELSE 0)
        /\ (pc # "done" => resp = <<>>)
        /\ (pc = "done" =>
               /\ (written[1] = StatusCreated <=> ~IsErrorBody(resp))
               /\ (written[1] = StatusCreated <=> Last(steps) = "Respond")
               /\ (IsErrorBody(resp) => written[1] = FailureStatus(Last(steps))))

\* a request refused by SignSSHAddUser, the last step that can fail
C1_Witness ==
    /\ op = "SSHSign"
    /\ pc = "done"
    /\ written = <<StatusForbidden>>
    /\ CallNames = <<"Authorize", "SignSSH", "SignSSHAddUser">>

\* the three conditions of the add-user policy, read off the request and the
\* issued certificate
AddUserKeySupplied == sign.raw[1].AddUserPublicKey # <<>>
IssuedIsUser == sign.cert[1].CertType = UserCert
IssuedHasOnePrincipal == Len(sign.cert[1].ValidPrincipals) = 1
AllThree == AddUserKeySupplied /\ IssuedIsUser /\ IssuedHasOnePrincipal

\* C2: once SignSSH has succeeded, SignSSHAddUser is called if and only if an
\* addUser key was supplied, the issued certificate is a user certificate and
\* it has exactly one valid principal; a 201 response carries an
\* addUserCertificate only when all three hold, and when one of them fails
\* the request ends with 201 and no addUserCertificate.
C2_AddUserPolicy ==
    (op = "SSHSign" /\ sign.cert # <<>> /\ pc \in {"sign_respond", "done"}) =>
        /\ ("SignSSHAddUser" \in {CallNames[i] : i \in 1..Len(calls)}) <=> AllThree
        /\ (pc = "done" /\ ~AllThree =>
               /\ written = <<StatusCreated>>
               /\ resp[1].AddUserCertificate = <<>>
               /\ resp[1].Certificate = [Certificate |-> sign.cert])
        /\ (pc = "done" /\ AllThree /\ written = <<StatusCreated>> =>
               /\ resp[1].AddUserCertificate # <<>>
               /\ resp[1].AddUserCertificate[1].Certificate # <<>>)

\* a host certificate was requested with two principals, the authority issued
\* a user certificate with one, and the add-user certificate was produced
C2_Witness ==
    /\ op = "SSHSign"
    /\ pc = "done"
    /\ written = <<StatusCreated>>
    /\ sign.raw[1].CertType = SSHHostCert
    /\ Len(sign.raw[1].Principals) = 2
    /\ AllThree
    /\ resp[1].AddUserCertificate # <<>>

\* C9: SSHSignRequest.Validate accepts exactly the requests whose certType is
\* "", "user" or "host" and whose publicKey and token are non-empty; an
\* unknown certType is reported by an error naming it, before an empty
\* publicKey, and that before an empty token; the request is not modified.
C9_SignRequestValidate ==
    (op = "SSHSign" /\ Last(steps) = "Validate") =>
        LET r == sign.raw[1]
            typeOK == r.CertType \in {"", "user", "host"}
            keyOK == Len(r.PublicKey) > 0
            tokenOK == Len(r.OTT) > 0
        IN  /\ (pc # "done") <=> (typeOK /\ keyOK /\ tokenOK)
            /\ (~typeOK => resp = ErrorBody(<<"unknown certType %s", r.CertType>>))
            /\ (typeOK /\ ~keyOK => resp = ErrorBody(<<"missing or empty publicKey">>))
            /\ (typeOK /\ keyOK /\ ~tokenOK => resp = ErrorBody(<<"missing or empty ott">>))
            /\ sign.body = sign.raw

\* a request with all three defects
C9_Witness ==
    /\ op = "SSHSign"
    /\ Last(steps) = "Validate"
    /\ sign.raw[1].CertType = "X"
    /\ sign.raw[1].PublicKey = <<>>
    /\ sign.raw[1].OTT = ""
    /\ pc = "done"

----------------------------------------------------------------------------
(* Properties of Config.Validate.  conf.before is the Config a Validate     *)
(* call received, conf.c the Config it left, conf.err its result.           *)

Validated == op = "Config" /\ conf.runs >= 1
Given == conf.before[1]
Result == conf.c[1]
RequiredPresent(c) ==
    /\ c.Address # ""
    /\ c.Root # ""
    /\ c.IntermediateCert # ""
    /\ c.IntermediateKey # ""
    /\ c.DNSNames # <<>>

\* the TLS versions that result from a configured policy t
ResultingMax(t) == IF t.MaxVersion # 0 THEN t.MaxVersion ELSE DefaultTLSOptionsValue.MaxVersion
ResultingMin(t) == IF t.MinVersion # 0 THEN t.MinVersion ELSE ResultingMax(t)

\* the checks of Validate in their order: <<fails, error>>
ValidateChecks(c) ==
    <<  <<c.Address = "", <<"address cannot be empty">> >>,
        <<c.Root = "", <<"root cannot be empty">> >>,
        <<c.IntermediateCert = "", <<"crt cannot be empty">> >>,
        <<c.IntermediateKey = "", <<"key cannot be empty">> >>,
        <<c.DNSNames = <<>>, <<"dnsNames cannot be empty">> >>,
        <<c.TLS # <<>> /\ ResultingMin(TLSOf(c, DefaultTLSOptionsValue))
                          > ResultingMax(TLSOf(c, DefaultTLSOptionsValue)),
          <<"tls minVersion cannot exceed tls maxVersion">> >>,
        <<c.AuthorityConfig = <<>>, <<"authority cannot be undefined">> >>,
        <<c.AuthorityConfig # <<>> /\ c.AuthorityConfig[1].Provisioners = <<>>,
          <<"authority.provisioners cannot be empty">> >>  >>

Failing(c) == {i \in 1..Len(ValidateChecks(c)) : ValidateChecks(c)[i][1]}
FirstFailing(c) == CHOOSE i \in Failing(c) : \A j \in Failing(c) : i <= j

\* C3: Validate reports the error of the first failing check in the order
\* address, root, crt, key, dnsNames, TLS min > max, authority absent,
\* provisioners empty, whatever the later checks would say; the error for an
\* absent authority differs from the one for empty provisioners; Validate
\* succeeds exactly when no check fails.
C3_FirstFailingCheck ==
    Validated =>
        /\ (Failing(Given) = {} <=> conf.err = <<>>)
        /\ (Failing(Given) # {} => conf.err = ValidateChecks(Given)[FirstFailing(Given)][2])
        /\ (Given.AuthorityConfig = <<>> =>
               conf.err # <<"authority.provisioners cannot be empty">>)
        /\ \A i, j \in 1..Len(ValidateChecks(Given)) :
               i # j => ValidateChecks(Given)[i][2] # ValidateChecks(Given)[j][2]

\* the TLS check fails while the authority is absent as well
C3_Witness ==
    /\ Validated
    /\ conf.err = <<"tls minVersion cannot exceed tls maxVersion">>
    /\ Given.AuthorityConfig = <<>>
    /\ Cardinality(Failing(Given)) = 2

\* C4: TLS defaulting, for a Config with the required fields.  An absent
\* policy becomes the built-in default (minVersion = default maxVersion,
\* default cipher suites, no renegotiation).  A present policy keeps its
\* cipher suites unless empty, its maxVersion unless zero, its minVersion
\* unless zero (then the resulting maxVersion), and its renegotiation flag
\* or-ed with the default's.  The min/max error is reported exactly when
\* the resulting minVersion exceeds the resulting maxVersion, so a validated
\* Config has a TLS policy with minVersion <= maxVersion.
C4_TLSDefaulting ==
    (Validated /\ RequiredPresent(Given)) =>
        LET d == DefaultTLSOptionsValue
            tlsError == <<"tls minVersion cannot exceed tls maxVersion">>
        IN  /\ DefaultTLSOptions = d
            /\ Result.TLS # <<>>
            /\ (Given.TLS = <<>> =>
                   /\ TLSOf(Result, DefaultTLSOptions) = d
                   /\ TLSOf(Result, DefaultTLSOptions).MinVersion = d.MaxVersion
                   /\ TLSOf(Result, DefaultTLSOptions).CipherSuites = d.CipherSuites
                   /\ TLSOf(Result, DefaultTLSOptions).Renegotiation = FALSE
                   /\ conf.err # tlsError)
            /\ (Given.TLS # <<>> =>
                   LET t == TLSOf(Given, d)
                       r == TLSOf(Result, DefaultTLSOptions)
                   IN  /\ r.CipherSuites =
                              (IF t.CipherSuites # <<>> THEN t.CipherSuites ELSE d.CipherSuites)
                       /\ r.MaxVersion = (IF t.MaxVersion # 0 THEN t.MaxVersion ELSE d.MaxVersion)
                       /\ r.MinVersion = (IF t.MinVersion # 0 THEN t.MinVersion ELSE r.MaxVersion)
                       /\ r.Renegotiation = (t.Renegotiation \/ d.Renegotiation)
                       /\ (conf.err = tlsError <=> r.MinVersion > r.MaxVersion))
            /\ (conf.err = <<>> =>
                   TLSOf(Result, DefaultTLSOptions).MinVersion
                       <= TLSOf(Result, DefaultTLSOptions).MaxVersion)

\* a policy with only maxVersion set, below the default: minVersion follows it
C4_Witness ==
    /\ Validated
    /\ conf.runs = 1
    /\ conf.err = <<>>
    /\ Given.TLS # <<>>
    /\ Given.tlsOptions.MinVersion = 0
    /\ Given.tlsOptions.MaxVersion = 11
    /\ Given.tlsOptions.CipherSuites = <<>>
    /\ Result.tlsOptions.MinVersion = 11

\* C10 as stated: after a successful Validate neither duration of the
\* Authority Policy is absent: an absent minCertDuration has become 5 minutes,
\* an absent maxCertDuration 24 hours, a present one is kept.
C10_DurationsDefaulted ==
    (Validated /\ conf.err = <<>>) =>
        LET g == Given.AuthorityConfig[1]
            r == Result.AuthorityConfig[1]
        IN  /\ r.MinCertDuration =
                   (IF g.MinCertDuration = <<>> THEN <<minCertDuration>> ELSE g.MinCertDuration)
            /\ r.MaxCertDuration =
                   (IF g.MaxCertDuration = <<>> THEN <<maxCertDuration>> ELSE g.MaxCertDuration)

\* C10, amended: Validate installs no duration default.  After a Validate
\* call, successful or not, both durations of the Authority Policy are as
\* they were configured: an absent one is still absent, a present one kept.
C10_DurationsUntouched ==
    (Validated /\ Given.AuthorityConfig # <<>>) =>
        /\ Result.AuthorityConfig # <<>>
        /\ Result.AuthorityConfig[1].MinCertDuration = Given.AuthorityConfig[1].MinCertDuration
        /\ Result.AuthorityConfig[1].MaxCertDuration = Given.AuthorityConfig[1].MaxCertDuration
        /\ Result.AuthorityConfig[1].Provisioners = Given.AuthorityConfig[1].Provisioners

\* a successful Validate of a policy without minCertDuration, whose template
\* was defaulted
C10_Witness ==
    /\ Validated
    /\ conf.err = <<>>
    /\ Given.AuthorityConfig[1].MinCertDuration = <<>>
    /\ Given.AuthorityConfig[1].MaxCertDuration # <<>>
    /\ Given.AuthorityConfig[1].Template = <<>>
    /\ Result.AuthorityConfig[1].Template # <<>>
    /\ Result.AuthorityConfig[1].MinCertDuration = <<>>

----------------------------------------------------------------------------
(* Properties of the containers *)

Decoded == op \in {"SSHCertificate", "SSHPublicKey"} /\ pc \in {"reencode", "done"}

\* C5: round trip.  For every certificate and every public key v, absent
\* included, unmarshalling the text MarshalJSON made of v succeeds and yields
\* v, whatever the receiving container held; and marshalling the result
\* again reproduces the text.
C5_RoundTrip ==
    (Decoded /\ codec.encoded) =>
        /\ codec.err = <<>>
        /\ codec.held = codec.v
        /\ (pc = "done" => codec.out = codec.data)

\* a host certificate with two principals went through a container that held
\* another certificate
C5_Witness ==
    /\ op = "SSHCertificate"
    /\ pc = "done"
    /\ codec.encoded
    /\ codec.prev = <<Cert1>>
    /\ codec.v # <<>>
    /\ codec.v[1].CertType = HostCert
    /\ Len(codec.v[1].ValidPrincipals) = 2
    /\ codec.held = codec.v
    /\ codec.out = codec.data

\* the kinds of text a container may receive
IsJSONString(data) ==
    /\ Len(data) >= 2
    /\ data[1] = QuoteChar
    /\ data[Len(data)] = QuoteChar
    /\ \A i \in 2..(Len(data) - 1) : data[i] # QuoteChar
StringOf(data) == SubSeq(data, 2, Len(data) - 1)
IsEmptyString(data) == data = <<QuoteChar, QuoteChar>>
Base64Fails(data) ==
    IsJSONString(data) /\ ~IsEmptyString(data) /\ DecodeString(StringOf(data)).err # <<>>
WireOf(data) == DecodeString(StringOf(data)).bytes
ParseFails(data) ==
    /\ IsJSONString(data) /\ ~IsEmptyString(data) /\ ~Base64Fails(data)
    /\ ParsePublicKey(WireOf(data)).err # <<>>
IsPlainKeyText(data) ==
    /\ IsJSONString(data) /\ ~IsEmptyString(data) /\ ~Base64Fails(data) /\ ~ParseFails(data)
    /\ ~IsCertificate(ParsePublicKey(WireOf(data)).pub[1])

\* the parts of C6 that hold as stated
C6_Common ==
    /\ (IsEmptyString(codec.data) => codec.err = <<>> /\ codec.held = <<>>)
    /\ (op = "SSHCertificate" /\ IsPlainKeyText(codec.data) =>
           codec.err = <<"error decoding ssh certificate: %T is not an *ssh.Certificate",
                         TypeName(ParsePublicKey(WireOf(codec.data)).pub[1])>>)
    /\ (op = "SSHPublicKey" /\ IsPlainKeyText(codec.data) =>
           codec.err = <<>> /\ codec.held = ParsePublicKey(WireOf(codec.data)).pub)
    /\ (Base64Fails(codec.data) \/ ParseFails(codec.data) => codec.err # <<>>)
    /\ (codec.err # <<>> => codec.held = codec.prev)

\* C6 as stated: the empty string decodes to the absent value without error;
\* a plain key given to the Certificate Container is a type-mismatch error
\* naming its type; any non-string JSON, base64 failure or parse failure is
\* an error; an error leaves the held value unchanged.
C6_DecodeOutcomes ==
    Decoded =>
        /\ C6_Common
        /\ (~IsJSONString(codec.data) => codec.err # <<>>)

\* C6, amended: as stated, but the JSON null is not an error: it decodes to
\* the absent value, as the empty string does; every other non-string JSON
\* is an error.
C6_DecodeOutcomesButNull ==
    Decoded =>
        /\ C6_Common
        /\ (~IsJSONString(codec.data) /\ codec.data # NullLiteral => codec.err # <<>>)
        /\ (codec.data = NullLiteral => codec.err = <<>> /\ codec.held = <<>>)

\* a plain key was given to a Certificate Container that held a certificate
C6_Witness ==
    /\ op = "SSHCertificate"
    /\ pc = "done"
    /\ IsPlainKeyText(codec.data)
    /\ codec.prev = <<Cert1>>
    /\ codec.held = <<Cert1>>
    /\ Len(codec.err) = 2
    /\ codec.err[2] = "*ssh.rsaPublicKey"

----------------------------------------------------------------------------
(* Properties of the Roots, Federation and Config handlers *)

Unwrap(ks) == [i \in 1..Len(ks) |-> ks[i].PublicKey[1]]

\* C7: Roots and Federation answer 500 on a collaborator error, 404 when the
\* collaborator returns no user key and no host key, and otherwise 200 with
\* exactly the returned keys, wrapped, the user keys and the host keys each
\* in their own list in the returned order; a 200 response has a key.
C7_RootsAndFederation ==
    (op \in {"SSHRoots", "SSHFederation"} /\ pc = "done") =>
        LET ret == calls[1].ret IN
        /\ Len(calls) = 1
        /\ calls[1].fn = (IF op = "SSHRoots" THEN "GetSSHRoots" ELSE "GetSSHFederation")
        /\ Len(written) = 1
        /\ (ret = <<>> => written = <<StatusInternalServerError>>)
        /\ (ret # <<>> /\ ret[1].UserKeys = <<>> /\ ret[1].HostKeys = <<>> =>
               written = <<StatusNotFound>>)
        /\ (ret # <<>> /\ (ret[1].UserKeys # <<>> \/ ret[1].HostKeys # <<>>) =>
               /\ written = <<StatusOK>>
               /\ Unwrap(resp[1].UserKeys) = ret[1].UserKeys
               /\ Unwrap(resp[1].HostKeys) = ret[1].HostKeys)
        /\ (written = <<StatusOK>> => resp[1].UserKeys # <<>> \/ resp[1].HostKeys # <<>>)

\* federation keys: two user keys in an order, no host key
C7_Witness ==
    /\ op = "SSHFederation"
    /\ pc = "done"
    /\ written = <<StatusOK>>
    /\ Unwrap(resp[1].UserKeys) = <<Key2, Key1>>
    /\ resp[1].HostKeys = <<>>

\* C8: a config request of type "" is changed to type "user" by Validate, so
\* GetSSHConfig receives "user" and the templates go to the user slot; type
\* "host" fills the host slot only; any other type is refused with 400 and
\* GetSSHConfig is not called; the branch that answers 500 for an unexpected
\* type is never taken.
C8_ConfigRender ==
    (op = "SSHConfig" /\ pc = "done" /\ render.raw # <<>>) =>
        LET t == render.raw[1].Type
            ok == written = <<StatusOK>>
        IN  /\ (t = "" =>
                   /\ render.body[1].Type = "user"
                   /\ Len(calls) = 1 /\ calls[1].typ = "user"
                   /\ (calls[1].ret # <<>> =>
                          /\ ok
                          /\ resp[1].UserTemplates = calls[1].ret[1]
                          /\ resp[1].HostTemplates = <<>>))
            /\ (t = "user" /\ ok => resp[1].UserTemplates = calls[1].ret[1]
                                    /\ resp[1].HostTemplates = <<>>)
            /\ (t = "host" =>
                   /\ Len(calls) = 1 /\ calls[1].typ = "host"
                   /\ (calls[1].ret # <<>> =>
                          /\ ok
                          /\ resp[1].HostTemplates = calls[1].ret[1]
                          /\ resp[1].UserTemplates = <<>>))
            /\ (t \notin {"", "user", "host"} =>
                   /\ written = <<StatusBadRequest>>
                   /\ calls = <<>>)
            /\ (\A i \in 1..Len(calls) : calls[i].data = render.raw[1].Data)
            /\ resp # ErrorBody(<<"it should hot get here">>)

\* a request without type answered with the user templates
C8_Witness ==
    /\ op = "SSHConfig"
    /\ pc = "done"
    /\ render.raw # <<>>
    /\ render.raw[1].Type = ""
    /\ written = <<StatusOK>>
    /\ Len(resp[1].UserTemplates) = 2

====
